---------------------------- MODULE Spec2Model ----------------------------
(***************************************************************************)
(* A model of src/main.py: the credential singleton (S3ClientManager), the *)
(* listing and the transfer batch (download_origin_files / download_file)  *)
(* and the record pass (process_verification_files /                       *)
(* process_verification).                                                  *)
(*                                                                         *)
(* Strings the code takes apart (file names, URLs, remote keys) are        *)
(* sequences of one-character tokens, so that split, basename, urlparse    *)
(* and splitext are computed the way the library computes them.  The token *)
(* "json" stands for the four letters of the suffix.                       *)
(***************************************************************************)
EXTENDS Integers, Sequences, FiniteSets, TLC

\* ------------------------------------------------------------- bounds
\* Longest stem of an origin file name (the part before ".json").
MaxStem == 3
\* Most document entries, and most step entries, of a record.
MaxEntries == 2
\* Most photo URLs of a document entry: one more than the two the code reads.
MaxPhotos == MaxEntries + 1
\* Most asset references of one record.
MaxAssets == MaxEntries + 1
\* Most files of the origin directory in a concurrent pass.
MaxFiles == 2
\* Most passes of process_verification_files in one behaviour.
MaxPasses == 2
\* Most transfer tasks of a batch, worker processes of its pool, and runs of
\* download_origin_files in one behaviour.
MaxTasks == 2
NumProcs == 2
MaxRuns == 2
\* Threads of one process that acquire the client, and calls per thread.
NumThreads == 2
MaxCalls == 2

\* ------------------------------------------------- sequences as strings
RECURSIVE SeqsUpTo(_, _)
\* All sequences over S of length 0..n.
SeqsUpTo(S, n) ==
  IF n = 0 THEN {<<>>}
  ELSE LET shorter == SeqsUpTo(S, n - 1)
       IN  shorter \cup {Append(s, c) : s \in {t \in shorter : Len(t) = n - 1}, c \in S}

\* str.find(c, from): the first index >= from holding c, 0 when there is none.
Find(s, c, from) ==
  LET hits == {i \in from..Len(s) : s[i] = c}
  IN  IF hits = {} THEN 0 ELSE CHOOSE i \in hits : \A j \in hits : i <= j

\* str.rfind(c): the last index holding c, 0 when there is none.
RFind(s, c) ==
  LET hits == {i \in 1..Len(s) : s[i] = c}
  IN  IF hits = {} THEN 0 ELSE CHOOSE i \in hits : \A j \in hits : i >= j

RECURSIVE Split(_, _)
\* str.split(sep): the pieces between the occurrences of sep (never empty).
Split(s, sep) ==
  LET i == Find(s, sep, 1)
  IN  IF i = 0 THEN <<s>>
      ELSE <<SubSeq(s, 1, i - 1)>> \o Split(SubSeq(s, i + 1, Len(s)), sep)

\* str.endswith(suffix)
EndsWith(s, suffix) ==
  /\ Len(s) >= Len(suffix)
  /\ SubSeq(s, Len(s) - Len(suffix) + 1, Len(s)) = suffix

\* --------------------------------------------------------------- paths
\* A path is a sequence of components, a component a sequence of tokens.
\* os.path.join(dir, name): an empty name leaves "dir/", the directory itself.
Join(dir, name) == IF name = <<>> THEN dir ELSE Append(dir, name)

DestinationDir == << <<"destination">> >>
OriginDir == << <<"origin">> >>

\* The directories os.makedirs(path) passes through, path included.
Ancestors(path) == {SubSeq(path, 1, n) : n \in 1..Len(path)}

DocFront == <<"doc_front.jpg">>
DocBack == <<"doc_back.jpg">>
Selfie == <<"selfie.jpg">>
Sprite == <<"sprite.jpg">>
DataJson == <<"data.json">>
DefaultExt == <<".mp4">>
VideoName(ext) == <<"video">> \o ext

\* ------------------------------------------------------------ file names
NameChars == {"a", "b", "-", "."}
JsonSuffix == <<".", "json">>
FileNames == {stem \o JsonSuffix : stem \in SeqsUpTo(NameChars, MaxStem)}

\* filename.split('-')[1].split('.')[0]; IndexError when there is no '-'.
ExtractId(filename) ==
  LET parts == Split(filename, "-")
  IN  IF Len(parts) < 2
      THEN [raised |-> TRUE, id |-> <<>>]
      ELSE [raised |-> FALSE, id |-> Split(parts[2], ".")[1]]

\* ------------------------------------------------------------------ URLs
\* A URL is the text after its "http:" scheme.  urlparse(url): the network
\* location runs from "//" to the next "/", "?" or "#"; an unbalanced
\* bracket in it raises ValueError; the fragment and the query are cut off
\* the rest, which is the path.
UrlParse(url) ==
  LET hasNet == Len(url) >= 2 /\ url[1] = "/" /\ url[2] = "/"
      stops == {i \in 3..Len(url) : url[i] \in {"/", "?", "#"}}
      netEnd == IF stops = {} THEN Len(url) + 1
                ELSE CHOOSE i \in stops : \A j \in stops : i <= j
      netloc == IF hasNet THEN SubSeq(url, 3, netEnd - 1) ELSE <<>>
      rest == IF hasNet THEN SubSeq(url, netEnd, Len(url)) ELSE url
      hash == Find(rest, "#", 1)
      noFrag == IF hash = 0 THEN rest ELSE SubSeq(rest, 1, hash - 1)
      qm == Find(noFrag, "?", 1)
      path == IF qm = 0 THEN noFrag ELSE SubSeq(noFrag, 1, qm - 1)
      open == Find(netloc, "[", 1) # 0
      close == Find(netloc, "]", 1) # 0
  IN  [raised |-> open # close, path |-> path]

\* os.path.splitext(path)[1]: from the last dot of the last segment, unless
\* that segment has only dots before it.
SplitExt(path) ==
  LET sepIndex == RFind(path, "/")
      dotIndex == RFind(path, ".")
  IN  IF /\ dotIndex > sepIndex
         /\ \E i \in (sepIndex + 1)..(dotIndex - 1) : path[i] # "."
      THEN SubSeq(path, dotIndex, Len(path))
      ELSE <<>>

\* The extension taken from the whole URL, query included.
VideoExtOfUrl(url) ==
  LET ext == SplitExt(url)
  IN  IF ext = <<>> THEN DefaultExt ELSE ext

\* os.path.splitext(urlparse(video_url).path)[1] or '.mp4'
VideoExt(url) ==
  LET ext == SplitExt(UrlParse(url).path)
  IN  IF ext = <<>> THEN DefaultExt ELSE ext

PhotoUrl == <<"/", "/", "h", "/", "p">>
VideoUrls ==
  { <<"/", "/", "h", "/", "v", ".", "mov">>,
    <<"/", "/", "h", "/", "v">>,
    <<"/", "/", "h", "/", "v", ".", "mov", "?", "s", ".", "x">>,
    <<"/", "/", "h", ".", "x", "/", "v">>,
    <<"/", "/", "h", "/", "d", ".", "x", "/", "v">>,
    <<"/", "/", "h", "/", ".", "mov">>,
    <<"/", "/", "h", "[", "/", "v", ".", "mov">> }

\* --------------------------------------------------------------- records
\* A dict key that may be missing is a sequence: <<>> (no such key) or <<v>>.
Opt(S) == {<<>>} \cup {<<v>> : v \in S}
Has(field) == field # <<>>
Val(field) == field[1]

DocEntries == [photos : Opt(SeqsUpTo({PhotoUrl}, MaxPhotos))]
StepEntriesOver(urls) ==
  [data : Opt([selfieUrl : Opt({PhotoUrl}), spriteUrl : Opt({PhotoUrl}),
               videoUrl : Opt(urls)])]
\* One video URL that parses and the one that does not.
PlainVideoUrls == {u \in VideoUrls : Len(u) = 7} \cup {u \in VideoUrls : UrlParse(u).raised}

\* The download_url calls of one document entry, in the order of the code.
DocCalls(i, doc) ==
  IF Has(doc.photos) /\ Val(doc.photos) # <<>>
  THEN (IF Len(Val(doc.photos)) >= 1
        THEN <<[asset |-> <<"doc", i, "front">>, url |-> Val(doc.photos)[1],
                video |-> FALSE, name |-> DocFront]>>
        ELSE <<>>)
       \o
       (IF Len(Val(doc.photos)) >= 2
        THEN <<[asset |-> <<"doc", i, "back">>, url |-> Val(doc.photos)[2],
                video |-> FALSE, name |-> DocBack]>>
        ELSE <<>>)
  ELSE <<>>

\* The download_url calls of one step entry, in the order of the code.  The
\* name of a video file is computed when the call is reached.
StepCalls(i, step) ==
  IF Has(step.data)
  THEN LET d == Val(step.data)
       IN (IF Has(d.selfieUrl)
           THEN <<[asset |-> <<"step", i, "selfieUrl">>, url |-> Val(d.selfieUrl),
                   video |-> FALSE, name |-> Selfie]>>
           ELSE <<>>)
          \o
          (IF Has(d.spriteUrl)
           THEN <<[asset |-> <<"step", i, "spriteUrl">>, url |-> Val(d.spriteUrl),
                   video |-> FALSE, name |-> Sprite]>>
           ELSE <<>>)
          \o
          (IF Has(d.videoUrl)
           THEN <<[asset |-> <<"step", i, "videoUrl">>, url |-> Val(d.videoUrl),
                   video |-> TRUE, name |-> <<>>]>>
           ELSE <<>>)
  ELSE <<>>

RECURSIVE DocsCalls(_, _)
DocsCalls(docs, i) ==
  IF i > Len(docs) THEN <<>> ELSE DocCalls(i, docs[i]) \o DocsCalls(docs, i + 1)

RECURSIVE StepsCalls(_, _)
StepsCalls(steps, i) ==
  IF i > Len(steps) THEN <<>> ELSE StepCalls(i, steps[i]) \o StepsCalls(steps, i + 1)

\* Every download_url call the two loops of process_verification make.
AssetCalls(data) ==
  (IF Has(data.documents) THEN DocsCalls(Val(data.documents), 1) ELSE <<>>)
  \o
  (IF Has(data.steps) THEN StepsCalls(Val(data.steps), 1) ELSE <<>>)

\* The records of the model: any documents alone, any steps alone, one of
\* each, and one step with any of the video URLs.
Records ==
  {d \in [documents : Opt(SeqsUpTo(DocEntries, MaxEntries)), steps : {<<>>, << <<>> >>}]
          \cup [documents : {<<>>}, steps : Opt(SeqsUpTo(StepEntriesOver(PlainVideoUrls), MaxEntries))]
          \cup [documents : {<<e>> : e \in {<<x>> : x \in DocEntries}},
                steps : {<<e>> : e \in {<<x>> : x \in StepEntriesOver(PlainVideoUrls)}}]
          \cup [documents : {<<>>}, steps : {<<e>> : e \in {<<x>> : x \in StepEntriesOver(VideoUrls)}}] :
     Len(AssetCalls(d)) <= MaxAssets}

\* Valid JSON of another shape on which the loops raise TypeError: a number
\* at the top (line 265), a number for 'documents' (line 266), for 'steps'
\* (line 281) or for the 'data' of a step (line 285).  A list at the top
\* ("array") has no 'documents' and no 'steps' and passes as an empty record.
Misshapen == {"number", "docs_number", "steps_number", "data_number"}

\* What json.load finds in an origin file, or why open / json.load fails.
NoData == [documents |-> <<>>, steps |-> <<>>]
Contents ==
  {[kind |-> "record", data |-> d] : d \in Records}
  \cup {[kind |-> "badjson", data |-> NoData], [kind |-> "unreadable", data |-> NoData]}
  \cup {[kind |-> k, data |-> NoData] : k \in Misshapen \cup {"array"}}

OneDoc == [documents |-> << << [photos |-> << <<PhotoUrl>> >>] >> >>, steps |-> <<>>]
SmallContents ==
  {[kind |-> "record", data |-> OneDoc], [kind |-> "badjson", data |-> NoData]}

\* ----------------------------------------------------------------- state
VARIABLES
  origin,    \* the .json files of origin/: file name -> content
  dirs,      \* the directories that exist (paths)
  files,     \* the files under destination/: path -> "full" | "partial"
  passNo,    \* passes of process_verification_files started so far
  mainPc,    \* where process_verification_files is
  tasks,     \* verification_files: the file names handed to pool.map
  pv,        \* per task, the locals of its process_verification call
  summary,   \* the four tallies, once printed
  fs0,       \* <<dirs, files>> as the pool of the current pass started
  readFailed, \* the IDs of the calls that returned from lines 258-261
  entered    \* per ID, the calls that got past os.makedirs (line 249)

recVars == <<origin, dirs, files, passNo, mainPc, tasks, pv, summary, fs0,
             readFailed, entered>>

VARIABLES
  bucket,     \* the keys under the prefix, in the order listings give them
  limit,      \* n, the limit of the current run (-1: none)
  cursor,     \* objects the paginator has gone through in the current run
  pages,      \* pages the listing loop has taken in the current run
  allFiles,   \* all_files: the descriptors collected, by their keys
  local,      \* the files of origin/: name -> the key whose bytes it holds
  xfPc,       \* where download_origin_files is
  xfRun,      \* runs of download_origin_files started so far
  startMethod,\* how multiprocessing starts a worker: "fork" or "spawn"
  parentClient, \* whether the parent process has its client cached
  procClient, \* per worker process, whether its copy of the cache is filled
  running,    \* per worker process, the task it runs (0: none)
  df,         \* per task, the locals of its download_file call
  xfSummary   \* the lists download_origin_files builds from the results

xfVars == <<bucket, limit, cursor, pages, allFiles, local, xfPc, xfRun,
            startMethod, parentClient, procClient, running, df, xfSummary>>

VARIABLES
  instance,    \* S3ClientManager._instance is set
  initialized, \* S3ClientManager._initialized
  lock,        \* the thread holding S3ClientManager._lock (0: free)
  s3Client,    \* _s3_client: 0 for None, else the number of the client
  made,        \* clients _create_client has built (roles assumed)
  th,          \* per thread: where it is, its calls, the clients it got
  expired,     \* the clients whose credential has run out
  firstGot     \* the first client get_client returned (0: none yet)

clVars == <<instance, initialized, lock, s3Client, made, th, expired, firstGot>>

vars == <<recVars, xfVars, clVars>>

NoResult == [status |-> "none", keys |-> {}]
NoSummary == [printed |-> FALSE, success |-> 0, partial_success |-> 0,
              skipped |-> 0, error |-> 0]

\* The locals of a call that has not run yet.
Fresh == [pc |-> "start", id |-> <<>>, dir |-> <<>>, data |-> NoData,
          calls |-> <<>>, k |-> 1, ok |-> TRUE, result |-> NoResult,
          parsed |-> FALSE,
          attempts |-> <<>>, wrote |-> {}, gate |-> "none",
          failedBefore |-> FALSE, commit |-> "none"]

Exists(path) == path \in dirs \/ path \in DOMAIN files

\* The dicts process_verification returns, by their keys.
ErrorResult == [status |-> "error", keys |-> {"status", "error", "filename"}]
SkippedResult == [status |-> "skipped", keys |-> {"status", "message"}]
FinalResult(ok) ==
  [status |-> IF ok THEN "success" ELSE "partial_success",
   keys |-> {"status", "verification_id", "filename", "message"}]

\* f with x mapped to v, x added to the domain when new.
Put(f, x, v) == [y \in DOMAIN f \cup {x} |-> IF y = x THEN v ELSE f[y]]

Orderings(S) ==
  {s \in [1..Cardinality(S) -> S] : \A i, j \in 1..Cardinality(S) : s[i] = s[j] => i = j}

\* ----------------------------------------------------- process_verification
\* Lines 245-246: the gate skips the record when its directory exists.
GateNever(dir) == FALSE
GateSkipsFiles(dir) == dir \in DOMAIN files
GateSkips(dir) == Exists(dir)

\* Lines 271-272 (and 276-277, 286-287, 290-291, 297-298): a failed
\* download_url clears downloads_succeeded and nothing sets it again.
LastWins(ok, fetched) == fetched
Downgrade(ok, fetched) == ok /\ fetched

\* Lines 231-246: the ID from the file name, then the idempotency gate.
PvStart(i) ==
  /\ mainPc = "map"
  /\ pv[i].pc = "start"
  /\ LET x == ExtractId(tasks[i])
         dir == Join(DestinationDir, x.id)
     IN  pv' = [pv EXCEPT ![i] =
           IF x.raised
           THEN [@ EXCEPT !.pc = "done", !.result = ErrorResult]
           ELSE IF GateSkips(dir)
           THEN [@ EXCEPT !.pc = "done", !.id = x.id, !.dir = dir,
                          !.gate = IF Exists(dir) THEN "exists" ELSE "absent",
                          !.failedBefore = x.id \in readFailed,
                          !.result = SkippedResult]
           ELSE [@ EXCEPT !.pc = "mkdir", !.id = x.id, !.dir = dir,
                          !.gate = IF Exists(dir) THEN "exists" ELSE "absent",
                          !.failedBefore = x.id \in readFailed]]
  /\ UNCHANGED <<origin, dirs, files, passNo, mainPc, tasks, summary, fs0,
                 readFailed, entered>>

\* Line 249: os.makedirs without exist_ok raises when the directory exists
\* by now, and when it cannot be created.
MakeDirExistOk(denied, dir) == denied
MakeDirRaises(denied, dir) == denied \/ Exists(dir)

\* Lines 248-251: os.makedirs(verification_dir); a failure is an Error.
PvMakeDir(i) ==
  /\ mainPc = "map"
  /\ pv[i].pc = "mkdir"
  /\ \E denied \in BOOLEAN :
       IF MakeDirRaises(denied, pv[i].dir)
       THEN /\ pv' = [pv EXCEPT ![i].pc = "done", ![i].result = ErrorResult]
            /\ dirs' = dirs
            /\ entered' = entered
       ELSE /\ pv' = [pv EXCEPT ![i].pc = "read",
                                ![i].wrote = @ \cup (Ancestors(pv[i].dir) \ dirs)]
            /\ dirs' = dirs \cup Ancestors(pv[i].dir)
            /\ entered' = Put(entered, pv[i].id,
                              IF pv[i].id \in DOMAIN entered
                              THEN entered[pv[i].id] + 1 ELSE 1)
  /\ UNCHANGED <<origin, files, passNo, mainPc, tasks, summary, fs0, readFailed>>

\* Lines 253-266 (281, 285): open and json.load of the source file; on data
\* of another shape the tests and loops that follow raise outside any try.
PvRead(i) ==
  /\ mainPc = "map"
  /\ pv[i].pc = "read"
  /\ LET c == origin[tasks[i]]
     IN
     /\ pv' = [pv EXCEPT ![i] =
           IF c.kind \in {"record", "array"}
           THEN [@ EXCEPT !.pc = IF AssetCalls(c.data) = <<>> THEN "write" ELSE "assets",
                          !.data = c.data, !.calls = AssetCalls(c.data), !.parsed = TRUE,
                          !.k = 1, !.ok = TRUE]
           ELSE IF c.kind \in Misshapen
           THEN [@ EXCEPT !.pc = "escaped"]
           ELSE [@ EXCEPT !.pc = "done", !.result = ErrorResult]]
     /\ readFailed' = IF c.kind \in {"badjson", "unreadable"}
                      THEN readFailed \cup {pv[i].id}
                      ELSE readFailed
  /\ UNCHANGED <<origin, dirs, files, passNo, mainPc, tasks, summary, fs0, entered>>

\* Lines 215-224 and one `if not download_url(...)` of lines 264-298: the next
\* asset of the two loops.  urlparse of a video URL runs outside any try.  A
\* download fails before urlretrieve creates the file ("nofile") or while it
\* fills it ("partial").
PvAsset(i) ==
  /\ mainPc = "map"
  /\ pv[i].pc = "assets"
  /\ LET c == pv[i].calls[pv[i].k]
         last == pv[i].k = Len(pv[i].calls)
     IN  IF c.video /\ UrlParse(c.url).raised
         THEN /\ pv' = [pv EXCEPT ![i].pc = "escaped"]
              /\ files' = files
         ELSE LET name == IF c.video THEN VideoName(VideoExt(c.url)) ELSE c.name
                  path == Join(pv[i].dir, name)
              IN  \E how \in {"ok", "nofile", "partial"} :
                    /\ pv' = [pv EXCEPT
                         ![i].pc = IF last THEN "write" ELSE "assets",
                         ![i].k = @ + 1,
                         ![i].ok = Downgrade(@, how = "ok"),
                         ![i].attempts = Append(@, [asset |-> c.asset, ok |-> how = "ok"]),
                         ![i].wrote = IF how = "nofile" THEN @ ELSE @ \cup {path}]
                    /\ files' = IF how = "nofile" THEN files
                                ELSE Put(files, path, IF how = "ok" THEN "full" ELSE "partial")
  /\ UNCHANGED <<origin, dirs, passNo, mainPc, tasks, summary, fs0,
                 readFailed, entered>>

\* Lines 305-314: a failed copy is an Error whatever the downloads did.
WriteIgnored(ok, how) == FinalResult(ok)
WriteOutcome(ok, how) == IF how = "ok" THEN FinalResult(ok) ELSE ErrorResult

\* Lines 300-314: data.json, then the outcome.  The write fails before the
\* file is created ("nofile") or after ("partial").
PvWrite(i) ==
  /\ mainPc = "map"
  /\ pv[i].pc = "write"
  /\ LET path == Join(pv[i].dir, DataJson)
     IN  \E how \in {"ok", "nofile", "partial"} :
           /\ pv' = [pv EXCEPT
                ![i].pc = "done",
                ![i].result = WriteOutcome(pv[i].ok, how),
                ![i].commit = how,
                ![i].wrote = IF how = "nofile" THEN @ ELSE @ \cup {path}]
           /\ files' = IF how = "nofile" THEN files
                       ELSE Put(files, path, IF how = "ok" THEN "full" ELSE "partial")
  /\ UNCHANGED <<origin, dirs, passNo, mainPc, tasks, summary, fs0,
                 readFailed, entered>>

\* ----------------------------------------------- process_verification_files
\* os.listdir(origin_dir): the source files and what the transfers brought.
Listdir == DOMAIN origin \cup DOMAIN local

\* Line 344: no file of origin/ was taken.
AlwaysFiles(found) == FALSE
NoFiles(found) == found = {}

\* Lines 322-351: destination/ is created; without origin/ the pass ends;
\* else origin/ is listed (in the order the file system gives) and the
\* tasks go to a new pool, or the pass ends when there is none.  The parent
\* is in one function at a time.
StartPass ==
  /\ mainPc \in {"idle", "summary", "raised", "nothing", "noorigin"}
  /\ xfPc \notin {"list", "listed", "map"}
  /\ passNo < MaxPasses
  /\ passNo' = passNo + 1
  /\ dirs' = dirs \cup Ancestors(DestinationDir)
  /\ summary' = NoSummary
  /\ fs0' = <<dirs', files>>
  /\ LET found == {f \in Listdir : EndsWith(f, JsonSuffix)}
     IN  IF OriginDir \notin dirs
         THEN /\ mainPc' = "noorigin"
              /\ tasks' = <<>>
              /\ pv' = <<>>
         ELSE IF NoFiles(found)
         THEN /\ mainPc' = "nothing"
              /\ tasks' = <<>>
              /\ pv' = <<>>
         ELSE /\ mainPc' = "map"
              /\ tasks' \in Orderings(found)
              /\ pv' = [i \in 1..Cardinality(found) |-> Fresh]
  /\ UNCHANGED <<origin, files, readFailed, entered>>

\* The key of a result the tally loop reads besides 'status' (lines 367-381).
Tallied(status) == IF status = "error" THEN {"filename", "error"}
                   ELSE IF status = "skipped" THEN {"filename", "message"}
                   ELSE {"filename"}

Count(status) == Cardinality({i \in DOMAIN pv : pv[i].result.status = status})

\* Lines 355-399: pool.map returns once every task has ended, or raises what
\* a task raised; the tally loop; the summary.
Collect ==
  /\ mainPc = "map"
  /\ \A i \in DOMAIN pv : pv[i].pc \in {"done", "escaped"}
  /\ IF \/ \E i \in DOMAIN pv : pv[i].pc = "escaped"
        \/ \E i \in DOMAIN pv : ~ (Tallied(pv[i].result.status) \subseteq pv[i].result.keys)
     THEN /\ mainPc' = "raised"
          /\ summary' = summary
     ELSE /\ mainPc' = "summary"
          /\ summary' = [printed |-> TRUE,
                         success |-> Count("success"),
                         partial_success |-> Count("partial_success"),
                         skipped |-> Count("skipped"),
                         error |-> Count("error")]
  /\ UNCHANGED <<origin, dirs, files, passNo, tasks, pv, fs0, readFailed, entered>>

\* Lines 254-257 read the source file anew in every call: a file that could
\* not be read or parsed is put right once a call has failed on it.
Repair(f) ==
  /\ origin[f].kind \in {"badjson", "unreadable"}
  /\ ~ ExtractId(f).raised
  /\ ExtractId(f).id \in readFailed
  /\ origin' = [origin EXCEPT ![f] = [kind |-> "record", data |-> OneDoc]]
  /\ UNCHANGED <<dirs, files, passNo, mainPc, tasks, pv, summary, fs0,
                 readFailed, entered>>

\* ------------------------------------------------- inputs of the record pass
\* One file of any name, with the suffix or (one name) without.
InitNames ==
  \E f \in FileNames \cup {<<"a", "-", "b">>}, c \in SmallContents : origin = (f :> c)

\* One well-named file holding any record.
InitAssets ==
  \E c \in Contents : origin = (<<"a", "-", "b">> \o JsonSuffix :> c)

\* Up to MaxFiles files, two of which may carry the same ID.
PassNames ==
  {stem \o JsonSuffix : stem \in {<<"a", "-", "a">>, <<"b", "-", "a">>, <<"a", "-", "b">>}}
InitPass ==
  \E S \in SUBSET PassNames :
    /\ Cardinality(S) <= MaxFiles
    /\ origin \in [S -> SmallContents]

\* A record beside a file of another shape.
InitShapes ==
  \E k \in Misshapen \cup {"array"} :
    origin = (<<"a", "-", "a">> \o JsonSuffix :> [kind |-> k, data |-> NoData])
             @@ (<<"a", "-", "b">> \o JsonSuffix :> [kind |-> "record", data |-> OneDoc])

\* origin/ with its files, or no origin/ at all.
InitRecord ==
  /\ \/ (InitNames \/ InitAssets \/ InitPass \/ InitShapes) /\ dirs = {OriginDir}
     \/ origin = <<>> /\ dirs = {}
  /\ files = <<>>
  /\ passNo = 0
  /\ mainPc = "idle"
  /\ tasks = <<>>
  /\ pv = <<>>
  /\ summary = NoSummary
  /\ fs0 = <<{}, <<>> >>
  /\ readFailed = {}
  /\ entered = <<>>

RecordAtRest ==
  /\ origin = <<>>
  /\ dirs = {OriginDir}
  /\ files = <<>>
  /\ passNo = 0
  /\ mainPc = "idle"
  /\ tasks = <<>>
  /\ pv = <<>>
  /\ summary = NoSummary
  /\ fs0 = <<{}, <<>> >>
  /\ readFailed = {}
  /\ entered = <<>>

\* ============================================================ transfers
\* The remote keys of the model, in the order a listing returns them.
KeyList ==
  << <<"a", "/">>,
     <<"a", "/", "x">>,
     <<"a", "/", "y">>,
     <<"b", "/", "x">>,
     <<"y">> >>

\* The keys at the positions I, in listing order.
Pick(I) ==
  [k \in 1..Cardinality(I) |->
     KeyList[CHOOSE i \in I : Cardinality({j \in I : j < i}) = k - 1]]

\* os.path.basename(key): what follows the last '/'.
Basename(key) == SubSeq(key, RFind(key, "/") + 1, Len(key))

\* The bytes of a file that was in origin/ before any run.
Old == <<"old">>
Procs == 1..NumProcs

NoXfSummary == [printed |-> FALSE, downloaded |-> 0, skipped |-> 0, errors |-> 0]

\* The locals of a download_file call that has not run yet; existed, seen,
\* remote and replaced record what the call met and did.
FreshDf == [pc |-> "queued", proc |-> 0, status |-> "none", raised |-> FALSE,
            existed |-> FALSE, seen |-> <<>>, remote |-> <<>>, replaced |-> FALSE]

\* The values of n the runs are given.
Limits == {-1} \cup 0..MaxTasks
\* The most objects a listing request returns in the model (PageSize).
MaxPage == MaxTasks

Min(a, b) == IF a <= b THEN a ELSE b

\* Lines 148 and 166: n bounds the listing unless it is the sentinel -1.
Unbounded(n) == FALSE
Bounded(n) == n # -1

\* Lines 153-157: what the paginator yields next when the service answers
\* with `size` objects at most.  With MaxItems set it cuts the page that
\* would pass the limit and stops; it also stops when the limit is met at a
\* page end and when the service has no more.  An answer without objects has
\* no 'Contents' key; a page cut to nothing keeps the key.
NextPage(size) ==
  LET raw == SubSeq(bucket, cursor + 1, Min(cursor + size, Len(bucket)))
      over == IF Bounded(limit) THEN cursor + Len(raw) - limit ELSE 0
      kept == IF over > 0 THEN SubSeq(raw, 1, Len(raw) - over) ELSE raw
  IN  [contents |-> kept,
       hasContents |-> raw # <<>>,
       seen |-> Len(raw),
       last |-> \/ over > 0
                \/ cursor + Len(raw) = Len(bucket)
                \/ Bounded(limit) /\ cursor + Len(raw) = limit]

\* Lines 135-152: the parent acquires the client (lines 47-54; the role may
\* be refused), origin/ is created and the listing is set up.  The parent
\* is in one function at a time.
XfStart ==
  /\ xfPc \in {"idle", "summary", "raised", "nothing"}
  /\ mainPc # "map"
  /\ xfRun < MaxRuns
  /\ xfRun' = xfRun + 1
  /\ xfSummary' = NoXfSummary
  /\ allFiles' = <<>>
  /\ cursor' = 0
  /\ pages' = 0
  /\ df' = <<>>
  /\ running' = [p \in Procs |-> 0]
  /\ limit' \in Limits
  /\ \E granted \in BOOLEAN :
       IF ~ parentClient /\ ~ granted
       THEN /\ xfPc' = "raised"
            /\ parentClient' = parentClient
            /\ dirs' = dirs
       ELSE /\ xfPc' = "list"
            /\ parentClient' = TRUE
            /\ dirs' = dirs \cup Ancestors(OriginDir)
  /\ UNCHANGED <<bucket, local, startMethod, procClient>>

\* Lines 153-168, one turn of the loop: the request for the next page fails
\* and the exception leaves the loop (to line 210), or the descriptors of
\* the page are added to all_files, which is cut to n once it has n.
XfPage ==
  /\ xfPc = "list"
  /\ \E size \in 1..MaxPage, failed \in BOOLEAN :
       IF failed
       THEN /\ xfPc' = "raised"
            /\ UNCHANGED <<allFiles, cursor, pages>>
       ELSE LET page == NextPage(size)
                more == IF page.hasContents THEN allFiles \o page.contents ELSE allFiles
                full == page.hasContents /\ Bounded(limit) /\ Len(more) >= limit
            IN  /\ allFiles' = IF full THEN SubSeq(more, 1, limit) ELSE more
                /\ cursor' = cursor + page.seen
                /\ pages' = pages + 1
                /\ xfPc' = IF full \/ page.last THEN "listed" ELSE "list"
  /\ UNCHANGED <<bucket, limit, local, xfRun, startMethod, parentClient,
                 procClient, running, df, xfSummary>>

\* Line 170: nothing was listed.
NeverEmpty(listed) == FALSE
NothingListed(listed) == listed = <<>>

\* Lines 170-175: without descriptors the run ends; else they go to a new
\* pool, whose processes start with a copy of the parent's cache (fork) or
\* with none (spawn).
XfPool ==
  /\ xfPc = "listed"
  /\ IF NothingListed(allFiles)
     THEN /\ xfPc' = "nothing"
          /\ UNCHANGED <<procClient, running, df>>
     ELSE /\ xfPc' = "map"
          /\ procClient' = [p \in Procs |-> startMethod = "fork"]
          /\ running' = [p \in Procs |-> 0]
          /\ df' = [t \in 1..Len(allFiles) |-> FreshDf]
  /\ UNCHANGED <<bucket, limit, cursor, pages, allFiles, local, xfRun,
                 startMethod, parentClient, xfSummary>>

\* Lines 89-107, and 116-118 when acquiring the client raises: the handler
\* reads file_key, which is not bound yet, and raises in its turn.
DfStart(t, p) ==
  /\ xfPc = "map"
  /\ df[t].pc = "queued"
  /\ \A u \in 1..(t - 1) : df[u].pc # "queued"
  /\ running[p] = 0
  /\ LET name == Basename(allFiles[t])
         met == [df[t] EXCEPT !.proc = p,
                              !.existed = name # <<>> /\ name \in DOMAIN local,
                              !.seen = IF name \in DOMAIN local THEN local[name] ELSE <<>>,
                              !.remote = IF procClient[p] THEN <<>> ELSE <<"assume_role">>]
     IN  \E granted \in BOOLEAN :
           IF ~ procClient[p] /\ ~ granted
           THEN /\ df' = [df EXCEPT ![t] = [met EXCEPT !.pc = "escaped", !.raised = TRUE]]
                /\ UNCHANGED <<procClient, running>>
           ELSE /\ procClient' = [procClient EXCEPT ![p] = TRUE]
                /\ IF name = <<>>
                   THEN /\ df' = [df EXCEPT ![t] = [met EXCEPT !.pc = "done", !.status = "dropped"]]
                        /\ UNCHANGED running
                   ELSE IF name \in DOMAIN local
                   THEN /\ df' = [df EXCEPT ![t] = [met EXCEPT !.pc = "done", !.status = "skipped"]]
                        /\ UNCHANGED running
                   ELSE /\ df' = [df EXCEPT ![t] = [met EXCEPT !.pc = "fetch"]]
                        /\ running' = [running EXCEPT ![p] = t]
  /\ UNCHANGED <<bucket, limit, cursor, pages, allFiles, local, xfPc, xfRun,
                 startMethod, parentClient, xfSummary>>

\* Lines 109-118: the object is fetched to local_path, or the fetch raises
\* and the handler returns the error result.
DfFetch(t) ==
  /\ xfPc = "map"
  /\ df[t].pc = "fetch"
  /\ LET name == Basename(allFiles[t])
     IN  \E fetched \in BOOLEAN :
           /\ df' = [df EXCEPT ![t].pc = "done",
                               ![t].status = IF fetched THEN "downloaded" ELSE "error",
                               ![t].raised = ~ fetched,
                               ![t].remote = Append(@, "get_object"),
                               ![t].replaced = fetched /\ name \in DOMAIN local]
           /\ local' = IF fetched THEN Put(local, name, allFiles[t]) ELSE local
  /\ running' = [running EXCEPT ![df[t].proc] = 0]
  /\ UNCHANGED <<bucket, limit, cursor, pages, allFiles, xfPc, xfRun, startMethod,
                 parentClient, procClient, xfSummary>>

XfCount(status) == Cardinality({t \in DOMAIN df : df[t].status = status})

\* Lines 178-212: pool.map returns the results once every task has ended, or
\* raises what a task raised; the results are sorted into the three lists.
XfCollect ==
  /\ xfPc = "map"
  /\ \A t \in DOMAIN df : df[t].pc \in {"done", "escaped"}
  /\ IF \E t \in DOMAIN df : df[t].pc = "escaped"
     THEN /\ xfPc' = "raised"
          /\ xfSummary' = xfSummary
     ELSE /\ xfPc' = "summary"
          /\ xfSummary' = [printed |-> TRUE,
                           downloaded |-> XfCount("downloaded"),
                           skipped |-> XfCount("skipped"),
                           errors |-> XfCount("error")]
  /\ UNCHANGED <<bucket, limit, cursor, pages, allFiles, local, xfRun,
                 startMethod, parentClient, procClient, running, df>>

InitTransfer ==
  /\ \E I \in SUBSET (1..Len(KeyList)) :
       Cardinality(I) <= MaxTasks /\ bucket = Pick(I)
  /\ limit = -1
  /\ cursor = 0
  /\ pages = 0
  /\ allFiles = <<>>
  /\ \E S \in SUBSET {Basename(KeyList[i]) : i \in 1..Len(KeyList)} :
       <<>> \notin S /\ local = [n \in S |-> Old]
  /\ startMethod \in {"fork", "spawn"}
  /\ xfPc = "idle"
  /\ xfRun = 0
  /\ parentClient = FALSE
  /\ procClient = [p \in Procs |-> FALSE]
  /\ running = [p \in Procs |-> 0]
  /\ df = <<>>
  /\ xfSummary = NoXfSummary

TransferAtRest ==
  /\ bucket = <<>>
  /\ limit = -1
  /\ cursor = 0
  /\ pages = 0
  /\ allFiles = <<>>
  /\ local = <<>>
  /\ startMethod = "fork"
  /\ xfPc = "idle"
  /\ xfRun = 0
  /\ parentClient = FALSE
  /\ procClient = [p \in Procs |-> FALSE]
  /\ running = [p \in Procs |-> 0]
  /\ df = <<>>
  /\ xfSummary = NoXfSummary

\* ============================================================== client
Threads == 1..NumThreads

\* base: the client that had been returned when the current call began;
\* xchg: the current call has asked for the role.
IdleThread == [pc |-> "idle", calls |-> 0, tmp |-> 0, got |-> <<>>,
               base |-> 0, xchg |-> FALSE]

\* Line 22 of a call S3ClientManager().get_client(): the unlocked test of
\* _instance in __new__.
ClCall(t) ==
  /\ th[t].pc = "idle"
  /\ th[t].calls < MaxCalls
  /\ th' = [th EXCEPT ![t].calls = @ + 1,
                      ![t].base = firstGot,
                      ![t].xchg = FALSE,
                      ![t].pc = IF instance THEN "init_check" ELSE "new_lock"]
  /\ UNCHANGED <<instance, initialized, lock, s3Client, made, expired, firstGot>>

\* Line 23: the lock is taken.
ClNewLock(t) ==
  /\ th[t].pc = "new_lock"
  /\ lock = 0
  /\ lock' = t
  /\ th' = [th EXCEPT ![t].pc = "new_locked"]
  /\ UNCHANGED <<instance, initialized, s3Client, made, expired, firstGot>>

\* Lines 24-26: the second test, the instance, the release.
ClNewLocked(t) ==
  /\ th[t].pc = "new_locked"
  /\ instance' = TRUE
  /\ lock' = 0
  /\ th' = [th EXCEPT ![t].pc = "init_check"]
  /\ UNCHANGED <<initialized, s3Client, made, expired, firstGot>>

\* Line 29: the unlocked test of _initialized in __init__.
ClInitCheck(t) ==
  /\ th[t].pc = "init_check"
  /\ th' = [th EXCEPT ![t].pc = IF initialized THEN "get_check" ELSE "init_lock"]
  /\ UNCHANGED <<instance, initialized, lock, s3Client, made, expired, firstGot>>

\* Line 30: the lock is taken.
ClInitLock(t) ==
  /\ th[t].pc = "init_lock"
  /\ lock = 0
  /\ lock' = t
  /\ th' = [th EXCEPT ![t].pc = "init_locked"]
  /\ UNCHANGED <<instance, initialized, s3Client, made, expired, firstGot>>

\* Lines 31-45: the second test, the fields, the release.
ClInitLocked(t) ==
  /\ th[t].pc = "init_locked"
  /\ s3Client' = IF initialized THEN s3Client ELSE 0
  /\ initialized' = TRUE
  /\ lock' = 0
  /\ th' = [th EXCEPT ![t].pc = "get_check"]
  /\ UNCHANGED <<instance, made, expired, firstGot>>

\* Line 52: get_client tests _s3_client, holding no lock.
ClGetCheck(t) ==
  /\ th[t].pc = "get_check"
  /\ th' = [th EXCEPT ![t].pc = IF s3Client = 0 THEN "create" ELSE "return"]
  /\ UNCHANGED <<instance, initialized, lock, s3Client, made, expired, firstGot>>

\* Lines 56-82: _create_client assumes the role and builds a client, or the
\* role is refused and the call ends with the exception.
ClCreate(t) ==
  /\ th[t].pc = "create"
  /\ \E granted \in BOOLEAN :
       IF granted
       THEN /\ made' = made + 1
            /\ th' = [th EXCEPT ![t].pc = "assign", ![t].tmp = made + 1,
                                ![t].xchg = TRUE]
       ELSE /\ made' = made
            /\ th' = [th EXCEPT ![t].pc = "idle", ![t].xchg = TRUE]
  /\ UNCHANGED <<instance, initialized, lock, s3Client, expired, firstGot>>

\* Line 53: the new client is stored.
ClAssign(t) ==
  /\ th[t].pc = "assign"
  /\ s3Client' = th[t].tmp
  /\ th' = [th EXCEPT ![t].pc = "return"]
  /\ UNCHANGED <<instance, initialized, lock, made, expired, firstGot>>

\* Line 54: the stored client is returned.
ClReturn(t) ==
  /\ th[t].pc = "return"
  /\ th' = [th EXCEPT ![t].pc = "idle", ![t].got = Append(@, s3Client)]
  /\ firstGot' = IF firstGot = 0 THEN s3Client ELSE firstGot
  /\ UNCHANGED <<instance, initialized, lock, s3Client, made, expired>>

\* The credential of a client runs out (DurationSeconds, line 71); nothing
\* in lines 47-54 looks at it.
ClExpire(c) ==
  /\ c \notin expired
  /\ expired' = expired \cup {c}
  /\ UNCHANGED <<instance, initialized, lock, s3Client, made, th, firstGot>>

ClientAtRest ==
  /\ instance = FALSE
  /\ initialized = FALSE
  /\ lock = 0
  /\ s3Client = 0
  /\ made = 0
  /\ th = [t \in Threads |-> IdleThread]
  /\ expired = {}
  /\ firstGot = 0

\* ------------------------------------------------------- specifications
NextRecord ==
  \/ StartPass /\ UNCHANGED <<xfVars, clVars>>
  \/ \E i \in DOMAIN pv : PvStart(i) /\ UNCHANGED <<xfVars, clVars>>
  \/ \E i \in DOMAIN pv : PvMakeDir(i) /\ UNCHANGED <<xfVars, clVars>>
  \/ \E i \in DOMAIN pv : PvRead(i) /\ UNCHANGED <<xfVars, clVars>>
  \/ \E i \in DOMAIN pv : PvAsset(i) /\ UNCHANGED <<xfVars, clVars>>
  \/ \E i \in DOMAIN pv : PvWrite(i) /\ UNCHANGED <<xfVars, clVars>>
  \/ Collect /\ UNCHANGED <<xfVars, clVars>>
  \/ \E f \in DOMAIN origin : Repair(f) /\ UNCHANGED <<xfVars, clVars>>

\* The record pass, the transfer machinery and the client at rest.
InitRecordPass == InitRecord /\ TransferAtRest /\ ClientAtRest
SpecRecord == InitRecordPass /\ [][NextRecord]_vars


NextTransfer ==
  \/ XfStart /\ UNCHANGED <<origin, files, passNo, mainPc, tasks, pv, summary, fs0,
                            readFailed, entered, clVars>>
  \/ XfPage /\ UNCHANGED <<recVars, clVars>>
  \/ XfPool /\ UNCHANGED <<recVars, clVars>>
  \/ \E t \in DOMAIN df, p \in Procs : DfStart(t, p) /\ UNCHANGED <<recVars, clVars>>
  \/ \E t \in DOMAIN df : DfFetch(t) /\ UNCHANGED <<recVars, clVars>>
  \/ XfCollect /\ UNCHANGED <<recVars, clVars>>

\* Runs of download_origin_files over one bucket.
InitTransferRuns == InitTransfer /\ RecordAtRest /\ ClientAtRest
SpecTransfer == InitTransferRuns /\ [][NextTransfer]_vars

NextClient ==
  \/ \E t \in Threads : ClCall(t) /\ UNCHANGED <<recVars, xfVars>>
  \/ \E t \in Threads : ClNewLock(t) /\ UNCHANGED <<recVars, xfVars>>
  \/ \E t \in Threads : ClNewLocked(t) /\ UNCHANGED <<recVars, xfVars>>
  \/ \E t \in Threads : ClInitCheck(t) /\ UNCHANGED <<recVars, xfVars>>
  \/ \E t \in Threads : ClInitLock(t) /\ UNCHANGED <<recVars, xfVars>>
  \/ \E t \in Threads : ClInitLocked(t) /\ UNCHANGED <<recVars, xfVars>>
  \/ \E t \in Threads : ClGetCheck(t) /\ UNCHANGED <<recVars, xfVars>>
  \/ \E t \in Threads : ClCreate(t) /\ UNCHANGED <<recVars, xfVars>>
  \/ \E t \in Threads : ClAssign(t) /\ UNCHANGED <<recVars, xfVars>>
  \/ \E t \in Threads : ClReturn(t) /\ UNCHANGED <<recVars, xfVars>>
  \/ \E c \in 1..made : ClExpire(c) /\ UNCHANGED <<recVars, xfVars>>

\* main(): download_origin_files and process_verification_files, one after
\* the other in any order, over small inputs: origin/ missing, empty, with a
\* file that lacks the suffix or with one source file; a bucket of one key
\* at most.
InitMain ==
  /\ InitTransfer
  /\ Len(bucket) <= 1
  /\ \/ /\ origin = <<>>
        /\ dirs = {}
        /\ local = <<>>
     \/ /\ \/ origin = <<>>
           \/ \E c \in SmallContents :
                \/ origin = (<<"a", "-", "b">> :> c)
                \/ origin = (<<"a", "-", "b">> \o JsonSuffix :> c)
        /\ dirs = {OriginDir}
  /\ files = <<>>
  /\ passNo = 0
  /\ mainPc = "idle"
  /\ tasks = <<>>
  /\ pv = <<>>
  /\ summary = NoSummary
  /\ fs0 = <<{}, <<>> >>
  /\ readFailed = {}
  /\ entered = <<>>
  /\ ClientAtRest

NextMain == NextTransfer \/ NextRecord
SpecMain == InitMain /\ [][NextMain]_vars

\* The threads of one process calling S3ClientManager().get_client().
InitClient == ClientAtRest /\ RecordAtRest /\ TransferAtRest
SpecClient == InitClient /\ [][NextClient]_vars

\* ============================================================== claims
Ended(i) == pv[i].pc \in {"done", "escaped"}

\* The names of the files directly inside dir.
NamesIn(dir) ==
  {q[Len(q)] : q \in {f \in DOMAIN files :
                        Len(f) = Len(dir) + 1 /\ SubSeq(f, 1, Len(dir)) = dir}}

\* How often the call of task i tried to download asset a.
Times(i, a) ==
  Cardinality({n \in 1..Len(pv[i].attempts) : pv[i].attempts[n].asset = a})

\* The assets a record references: the first two photos of each document
\* entry, and the selfieUrl, spriteUrl and videoUrl of each step entry.
Referenced(data) ==
  (IF Has(data.documents)
   THEN LET docs == Val(data.documents)
        IN  {<<"doc", n, "front">> : n \in {m \in 1..Len(docs) :
               Has(docs[m].photos) /\ Len(Val(docs[m].photos)) >= 1}}
            \cup
            {<<"doc", n, "back">> : n \in {m \in 1..Len(docs) :
               Has(docs[m].photos) /\ Len(Val(docs[m].photos)) >= 2}}
   ELSE {})
  \cup
  (IF Has(data.steps)
   THEN LET steps == Val(data.steps)
            refs(key) == {<<"step", n, key>> : n \in {m \in 1..Len(steps) :
                            Has(steps[m].data) /\ Has(Val(steps[m].data)[key])}}
        IN  refs("selfieUrl") \cup refs("spriteUrl") \cup refs("videoUrl")
   ELSE {})

\* Every referenced asset of task i was downloaded.
AllFetched(i) ==
  \A a \in Referenced(pv[i].data) :
    \E n \in 1..Len(pv[i].attempts) : pv[i].attempts[n].asset = a /\ pv[i].attempts[n].ok

\* C1: a call that finds its directory present ends Skipped, having written
\* nothing and downloaded nothing; when it is the only call of its pass the
\* tree is the one the pass started with.
C1_SkipLeavesTreeUntouched ==
  \A i \in DOMAIN pv :
    pv[i].gate = "exists" =>
      /\ pv[i].pc = "done"
      /\ pv[i].result.status = "skipped"
      /\ pv[i].wrote = {}
      /\ pv[i].attempts = <<>>
      /\ (Len(tasks) = 1 => <<dirs, files>> = fs0)

\* A record assembled by an earlier pass is met again and skipped.
C1_Witness ==
  \E i \in DOMAIN pv :
    /\ pv[i].gate = "exists"
    /\ pv[i].pc = "done"
    /\ DataJson \in NamesIn(pv[i].dir)
    /\ DocFront \in NamesIn(pv[i].dir)

\* No '-' in the name, or nothing between the first '-' and the next '.'.
NoIdSegment(filename) ==
  LET dash == Find(filename, "-", 1)
  IN  dash = 0 \/ filename[dash + 1] = "."

\* C3: a pass that found inputs (here: all of them well named) and whose
\* calls all returned an outcome, Skipped included, ends with the summary
\* printed, its four tallies summing to the number of inputs.
C3_PassEndsWithSummary ==
  (/\ mainPc \in {"summary", "raised"}
   /\ \A i \in DOMAIN pv : pv[i].pc = "done" /\ ~ NoIdSegment(tasks[i]))
  => /\ summary.printed
     /\ summary.success + summary.partial_success + summary.skipped + summary.error
          = Len(tasks)

\* C7: a file name without an ID segment yields Error at once: the gate is
\* never reached and nothing is created.
C7_InvalidFilenameIsError ==
  \A i \in DOMAIN pv :
    (NoIdSegment(tasks[i]) /\ pv[i].pc # "start") =>
      /\ pv[i].pc = "done"
      /\ pv[i].result.status = "error"
      /\ pv[i].gate = "none"
      /\ pv[i].wrote = {}

\* C8: a call that wrote data.json returns Success exactly when none of its
\* downloads failed, and PartialSuccess when one did.
C8_SuccessIffAllFetched ==
  \A i \in DOMAIN pv :
    (pv[i].pc = "done" /\ pv[i].result.status \in {"success", "partial_success"}) =>
      LET failed == \E n \in 1..Len(pv[i].attempts) : ~ pv[i].attempts[n].ok
      IN  /\ pv[i].result.status = "success" <=> ~ failed
          /\ failed => pv[i].result.status = "partial_success"

\* A failed download followed by a successful one, and PartialSuccess.
C8_Witness ==
  \E i \in DOMAIN pv :
    /\ pv[i].pc = "done"
    /\ pv[i].result.status = "partial_success"
    /\ \E m, n \in 1..Len(pv[i].attempts) :
         m < n /\ ~ pv[i].attempts[m].ok /\ pv[i].attempts[n].ok

\* C9: once the record is parsed, whatever fails, every referenced asset is
\* tried exactly once and the call goes on to write data.json.
C9_EveryAssetAttempted ==
  \A i \in DOMAIN pv :
    (pv[i].parsed /\ Ended(i)) =>
      /\ \A a \in Referenced(pv[i].data) : Times(i, a) = 1
      /\ pv[i].pc = "done"

\* What Python's os.path.splitext(urlparse(u).path)[1] or '.mp4' gives for the
\* video URLs of the model.
Mov == <<".", "mov">>
ExpectedVideoName(url) ==
  IF url \in { <<"/", "/", "h", "/", "v", ".", "mov">>,
               <<"/", "/", "h", "/", "v", ".", "mov", "?", "s", ".", "x">> }
  THEN VideoName(Mov)
  ELSE VideoName(DefaultExt)

\* The asset files the record stands for.
ExpectedNames(data) ==
  LET docs == IF Has(data.documents) THEN Val(data.documents) ELSE <<>>
      steps == IF Has(data.steps) THEN Val(data.steps) ELSE <<>>
      photos(n) == IF Has(docs[n].photos) THEN Len(Val(docs[n].photos)) ELSE 0
      refs(key) == {n \in 1..Len(steps) : Has(steps[n].data) /\ Has(Val(steps[n].data)[key])}
  IN  (IF \E n \in 1..Len(docs) : photos(n) >= 1 THEN {DocFront} ELSE {})
      \cup (IF \E n \in 1..Len(docs) : photos(n) >= 2 THEN {DocBack} ELSE {})
      \cup (IF refs("selfieUrl") # {} THEN {Selfie} ELSE {})
      \cup (IF refs("spriteUrl") # {} THEN {Sprite} ELSE {})
      \cup {ExpectedVideoName(Val(Val(steps[n].data).videoUrl)) : n \in refs("videoUrl")}

\* C10: when every fetch of a record succeeded, its directory holds the
\* files the record references, under the names of the layout, and nothing
\* else besides data.json, which is complete when the outcome is Success.
C10_FilesAreThoseReferenced ==
  \A i \in DOMAIN pv :
    (pv[i].pc = "done" /\ pv[i].parsed /\ AllFetched(i)) =>
      /\ NamesIn(pv[i].dir) \ {DataJson} = ExpectedNames(pv[i].data)
      /\ pv[i].result.status \in {"success", "error"}
      /\ pv[i].result.status = "success" =>
           /\ Join(pv[i].dir, DataJson) \in DOMAIN files
           /\ files[Join(pv[i].dir, DataJson)] = "full"

\* A video whose URL carries a query is stored as video.mov beside data.json.
C10_Witness ==
  \E i \in DOMAIN pv :
    /\ pv[i].pc = "done"
    /\ pv[i].result.status = "success"
    /\ \E n \in 1..Len(pv[i].calls) : pv[i].calls[n].video /\ Len(pv[i].calls[n].url) > 7
    /\ NamesIn(pv[i].dir) = {VideoName(Mov), DataJson}

\* C2: a task whose local path exists when download_file runs ends Skipped
\* and the file keeps its bytes (so a second run over the files of a first,
\* fully successful one skips every task).
C2_ExistingPathIsSkipped ==
  \A t \in DOMAIN df :
    (df[t].existed /\ df[t].pc # "queued") =>
      /\ df[t].pc = "done"
      /\ df[t].status = "skipped"
      /\ local[Basename(allFiles[t])] = df[t].seen

\* C4: an error raised while a task is handled, the acquisition of the
\* client included, becomes the Failed result of that task, and no task
\* makes the batch raise.
C4_ErrorBecomesFailed ==
  /\ \A t \in DOMAIN df : df[t].raised => (df[t].pc = "done" /\ df[t].status = "error")
  /\ xfPc = "raised" => \A t \in DOMAIN df : df[t].pc # "escaped"

\* C5: every task that has ended has yielded one result when its key has a
\* final segment and none when it is a placeholder, and a batch that has
\* ended has tallied as many results as it has tasks that are no placeholder.
C5_OneResultPerTask ==
  /\ \A t \in DOMAIN df :
       df[t].pc \in {"done", "escaped"} =>
         IF Basename(allFiles[t]) = <<>>
         THEN df[t].status = "dropped"
         ELSE df[t].status \in {"downloaded", "skipped", "error"}
  /\ (xfPc \in {"summary", "raised"} /\ df # <<>>) =>
       /\ xfSummary.printed
       /\ xfSummary.downloaded + xfSummary.skipped + xfSummary.errors
            = Cardinality({t \in DOMAIN df : Basename(allFiles[t]) # <<>>})

\* C6: however the first calls of the threads interleave, one client at most
\* is built and every caller is given the same client.
C6_OneClientForAll ==
  /\ made <= 1
  /\ \A t, u \in Threads :
       \A m \in 1..Len(th[t].got), n \in 1..Len(th[u].got) : th[t].got[m] = th[u].got[n]

\* The listing loop of the current run has ended without raising.
Listed ==
  \/ xfPc \in {"listed", "nothing", "map", "summary"}
  \/ xfPc = "raised" /\ df # <<>>

\* C11: whatever the sizes of the pages, a listing that has ended has
\* collected the first min(n, N) of the N keys when n is a non-negative
\* limit, and all N when n is -1.
C11_ListingCollectsMinLimitN ==
  Listed =>
    LET want == IF limit = -1 THEN Len(bucket) ELSE Min(limit, Len(bucket))
    IN  /\ Len(allFiles) = want
        /\ allFiles = SubSeq(bucket, 1, want)

\* A page of two objects is cut to the one the limit allows.
C11_Witness ==
  /\ Listed
  /\ limit = 1
  /\ Len(bucket) = 2
  /\ pages = 1
  /\ cursor = 2
  /\ Len(allFiles) = 1

\* C12: the directory of an ID whose source could not be read or parsed
\* stays, empty, and every call for that ID that starts afterwards, in this
\* pass or a later one, the source repaired or not, ends Skipped without
\* writing or downloading anything.
C12_ReadErrorSkipsForGood ==
  /\ \A id \in readFailed :
       /\ Join(DestinationDir, id) \in dirs
       /\ NamesIn(Join(DestinationDir, id)) = {}
  /\ \A i \in DOMAIN pv :
       (pv[i].failedBefore /\ pv[i].pc # "start") =>
         /\ pv[i].pc = "done"
         /\ pv[i].result.status = "skipped"
         /\ pv[i].wrote = {}
         /\ pv[i].attempts = <<>>

\* The second pass skips a record whose source has been repaired.
C12_Witness ==
  \E i \in DOMAIN pv :
    /\ passNo = 2
    /\ pv[i].failedBefore
    /\ pv[i].result.status = "skipped"
    /\ origin[tasks[i]].kind = "record"
    /\ NamesIn(pv[i].dir) = {}

\* C13: data.json is written last: the write starts only when every
\* referenced asset has been tried, a write that fails gives Error whatever
\* the downloads did, and Success or PartialSuccess means that data.json is
\* there, complete.
C13_DataJsonIsFinalCommit ==
  \A i \in DOMAIN pv :
    LET path == Join(pv[i].dir, DataJson)
        started == pv[i].pc = "write" \/ pv[i].commit # "none"
    IN  /\ started => \A a \in Referenced(pv[i].data) : Times(i, a) >= 1
        /\ ~ started => path \notin pv[i].wrote
        /\ pv[i].commit \in {"nofile", "partial"} => pv[i].result.status = "error"
        /\ pv[i].result.status \in {"success", "partial_success"} =>
             /\ pv[i].commit = "ok"
             /\ path \in DOMAIN files
             /\ files[path] = "full"

\* Every asset was downloaded, the copy broke off, and the outcome is Error.
C13_Witness ==
  \E i \in DOMAIN pv :
    /\ pv[i].commit = "partial"
    /\ Referenced(pv[i].data) # {}
    /\ AllFetched(i)
    /\ pv[i].result.status = "error"
    /\ files[Join(pv[i].dir, DataJson)] = "partial"

\* The .json files os.listdir finds in origin/.
JsonFiles == {f \in Listdir : EndsWith(f, JsonSuffix)}

\* C14: a run whose listing collected nothing, and a pass over an origin/
\* without a .json file, end at once: no pool, no exception, no summary,
\* only the message that there is nothing to do.
C14_ZeroInputsEndQuietly ==
  /\ (Listed /\ allFiles = <<>>) =>
       /\ xfPc \in {"listed", "nothing"}
       /\ df = <<>>
       /\ ~ xfSummary.printed
  /\ (passNo > 0 /\ OriginDir \in fs0[1] /\ JsonFiles = {}) =>
       /\ mainPc = "nothing"
       /\ pv = <<>>
       /\ ~ summary.printed

\* Both have run over nothing: a bucket whose only object the limit 0 leaves
\* out, and an origin/ whose only file lacks the suffix.
C14_Witness ==
  /\ xfPc = "nothing"
  /\ limit = 0
  /\ bucket # <<>>
  /\ mainPc = "nothing"
  /\ origin # <<>>

\* Every video URL of the source file of task i parses.
UrlsParse(i) ==
  LET calls == AssetCalls(origin[tasks[i]].data)
  IN  \A n \in 1..Len(calls) : calls[n].video => ~ UrlParse(calls[n].url).raised

\* C15: every call ends with one of the four outcomes, whatever JSON its
\* source file holds (here: all its video URLs parse), and a pass whose
\* files are all of that kind does not raise on a call.
C15_EveryFailureIsAnOutcome ==
  /\ \A i \in DOMAIN pv :
       (Ended(i) /\ UrlsParse(i)) =>
         /\ pv[i].pc = "done"
         /\ pv[i].result.status \in {"success", "partial_success", "skipped", "error"}
  /\ (mainPc = "raised" /\ \A i \in DOMAIN pv : UrlsParse(i)) =>
       \A i \in DOMAIN pv : pv[i].pc = "done"

\* The call of task i got past the creation of its directory.
EnteredCall(i) == pv[i].pc \in {"read", "assets", "write", "escaped"} \/ pv[i].parsed
                  \/ (pv[i].pc = "done" /\ pv[i].dir \in pv[i].wrote)

\* C16: over all passes and interleavings one call at most per ID gets past
\* the creation of the directory, and a call that did not ended Skipped or
\* Error, having written nothing and downloaded nothing.
C16_OneCallPerIdEnters ==
  /\ \A id \in DOMAIN entered : entered[id] <= 1
  /\ \A i, j \in DOMAIN pv :
       (i # j /\ EnteredCall(i) /\ EnteredCall(j)) => pv[i].id # pv[j].id
  /\ \A i \in DOMAIN pv :
       (Ended(i) /\ ~ EnteredCall(i)) =>
         /\ pv[i].result.status \in {"skipped", "error"}
         /\ pv[i].wrote = {}
         /\ pv[i].attempts = <<>>

\* Two files with one ID: both calls found no directory, one created it and
\* wrote data.json, the other failed on os.makedirs.
C16_Witness ==
  \E i, j \in DOMAIN pv :
    /\ i # j
    /\ tasks[i] # tasks[j]
    /\ pv[i].id = pv[j].id
    /\ pv[i].gate = "absent"
    /\ pv[j].gate = "absent"
    /\ DataJson \in NamesIn(pv[i].dir)
    /\ pv[i].commit = "ok"
    /\ pv[j].pc = "done"
    /\ pv[j].result.status = "error"
    /\ pv[j].wrote = {}

\* C17: in a batch no file that exists is written over, and no two tasks
\* write the same local file, whatever the keys and the interleaving.
C17_WritesAreDisjoint ==
  /\ \A t \in DOMAIN df : ~ df[t].replaced
  /\ \A t, u \in DOMAIN df :
       (t # u /\ df[t].status = "downloaded" /\ df[u].status = "downloaded") =>
         Basename(allFiles[t]) # Basename(allFiles[u])

\* C18: a task that ended Skipped made no remote call on its way, neither
\* assume_role nor a fetch, whether its worker had a client or not.
C18_SkipMakesNoRemoteCall ==
  \A t \in DOMAIN df :
    (df[t].pc = "done" /\ df[t].status = "skipped") => df[t].remote = <<>>

\* The current run raised, and neither on the acquisition of the client nor
\* on a task: a request of the listing failed.
ListingRaised ==
  /\ xfPc = "raised"
  /\ parentClient
  /\ \A t \in DOMAIN df : df[t].pc # "escaped"

\* C19: when a page request fails after pages were collected, the run
\* raises and the descriptors of those pages are still transferred: each has
\* its task, and the task has ended.
C19_CollectedPagesAreTransferred ==
  (ListingRaised /\ pages >= 1 /\ allFiles # <<>>) =>
    /\ Len(df) = Len(allFiles)
    /\ \A t \in DOMAIN df : df[t].pc = "done"

\* C20: a call that begins once a client has been returned asks for no role
\* and returns that same client, its credential run out or not, and no role
\* is granted once a client has been built.
C20_ReturnedClientIsKept ==
  /\ \A t \in Threads :
       th[t].base # 0 =>
         /\ ~ th[t].xchg
         /\ th[t].pc \notin {"create", "assign"}
         /\ th[t].pc = "idle" => th[t].got[Len(th[t].got)] = th[t].base
  /\ made <= 1

=============================================================================
